---- MODULE Spec2Model ----
(***************************************************************************)
(* The GitHub App gateway of brigade-github-app: one webhook delivery      *)
(* handled by githubHook.Handle and the handlers it dispatches to, with    *)
(* the build store, the GitHub API and the build reporter as the           *)
(* environment.                                                            *)
(*                                                                         *)
(* Strings that the code splits are kept as the sequence of their parts:   *)
(* an event name "pull_request:opened" is <<"pull_request", "opened">>     *)
(* (split at ':'), a repository full name "o/r" is <<"o", "r">> (split at  *)
(* '/'), and the empty string of such a kind is <<>>.  Other strings are    *)
(* TLA+ strings.                                                           *)
(***************************************************************************)
EXTENDS Integers, Sequences, FiniteSets, Bags, TLC

\* Longest pull_requests list a check_suite / check_run payload carries.
MaxPullRequests == 1

\* Pull request / issue numbers range over 1..MaxNumber.
MaxNumber == 1

\* IDs of the builds the reporter is asked to watch.
BuildIDs == {1}

\* Add / Update events the pod informer delivers in one behaviour.
MaxPodEvents == 2

\* completeOrRetry: "Retry at most 5 times on error."
MaxRequeues == 5

\* Run is called with 1..MaxWorkers for its threadiness.
MaxWorkers == 2

(***************************************************************************)
(* The build store's projects.                                             *)
(***************************************************************************)
Project(name, secret) ==
    [id |-> <<"brigade">> \o name, name |-> name, sharedSecret |-> secret,
     github |-> [urlOK |-> TRUE]]

NoProject == [id |-> <<>>, name |-> <<>>, sharedSecret |-> "",
              github |-> [urlOK |-> TRUE]]

\* o/r has its own secret, o/n relies on the gateway's default secret.
NamedProjects == {Project(<<"o", "r">>, "s1"), Project(<<"o", "n">>, "")}

\* A store that answers GetProject for any name (as the tests' store does)
\* also answers for the empty name.
CatchAllProject == Project(<<>>, "s1")

StoreStates == {NamedProjects, NamedProjects \cup {CatchAllProject}}

\* Repository full names a payload may carry; o/x is in no store.
Repos == {<<"o", "r">>, <<"o", "n">>, <<"o", "x">>}

(***************************************************************************)
(* Gateway configuration (GithubOpts, allowedAuthors), fixed at startup.   *)
(***************************************************************************)
EmittedEventsChoices ==
    { {<<"*">>},
      {<<"push">>, <<"pull_request">>, <<"issue_comment", "created">>,
       <<"check_suite", "requested">>, <<"release">>},
      {<<"issue_comment">>, <<"check_run">>} }

Configs ==
    [CheckSuiteOnPR : BOOLEAN,
     AppID : {1},
     DefaultSharedSecret : {"", "dflt"},
     EmittedEvents : EmittedEventsChoices,
     ReportBuildFailures : BOOLEAN,
     allowedAuthors : {{"COLLABORATOR", "OWNER", "MEMBER"}}]

(***************************************************************************)
(* Request bodies.  kind is what the bytes are: "unreadable" (reading the  *)
(* body fails), "empty" (0 bytes), "short" (1 byte), "malformed" (2 bytes  *)
(* or more, not JSON for the event), "object" (the JSON object GitHub      *)
(* sends for the event named in X-GitHub-Event, with the sub-objects its   *)
(* schema guarantees).  The other fields are the JSON fields the handlers  *)
(* read; sha is the commit the handler's kind reads (for the check events  *)
(* the suite's head_sha) and runSha is check_run.head_sha, the run's own.  *)
(***************************************************************************)
ZeroBody ==
    [kind |-> "object", repo |-> <<>>, action |-> "", deleted |-> FALSE,
     sha |-> "", runSha |-> "", ref |-> "", number |-> 0, fork |-> FALSE,
     assoc |-> "",
     prID |-> 0, appID |-> 0, runAppID |-> 0, instID |-> 0, instAppID |-> 0,
     prs |-> <<>>, isPR |-> FALSE, issueID |-> 0]

RawBody(k) == [ZeroBody EXCEPT !.kind = k]

NonObjectBodies == {RawBody(k) : k \in {"unreadable", "empty", "short", "malformed"}}

BodyLen(b) ==
    CASE b.kind = "empty" -> 0
      [] b.kind = "short" -> 1
      [] OTHER -> 2

HandleEventKinds ==
    {"commit_comment", "create", "deployment", "deployment_status",
     "pull_request", "pull_request_review", "pull_request_review_comment",
     "push", "release", "status"}

CheckKinds == {"check_suite", "check_run"}

\* Kinds the gateway routes to a handler that may build.
SupportedKinds == HandleEventKinds \cup CheckKinds \cup {"issue_comment"}

\* X-GitHub-Event values: the supported kinds, ping, an event the parser
\* knows but the gateway does not handle, and a name nobody knows.
EventTypes == SupportedKinds \cup {"ping", "issues", "funzone"}

\* The names in go-github's eventTypeMapping.
ParserKnown == EventTypes \ {"funzone"}

Numbers == 1..MaxNumber

PRListsUpTo(n) == UNION {[1..k -> {11}] : k \in 0..n}

Associations == {"OWNER", "NONE"}

InstallationIDs == {0, 7}

PullRequestActions ==
    {"opened", "synchronize", "reopened", "labeled", "unlabeled", "closed",
     "edited"}

ObjectBodies(eventType) ==
    CASE eventType = "push" ->
           {[ZeroBody EXCEPT !.repo = r, !.sha = "c1", !.deleted = d,
                             !.ref = "refs/heads/changes"]
              : r \in Repos, d \in BOOLEAN}
      [] eventType = "pull_request" ->
           {[ZeroBody EXCEPT !.repo = r, !.sha = "c1", !.action = a,
                             !.number = n, !.fork = f, !.assoc = as,
                             !.prID = 11, !.instID = i]
              : r \in Repos, a \in PullRequestActions, n \in Numbers,
                f \in BOOLEAN, as \in Associations, i \in InstallationIDs}
      [] eventType \in {"pull_request_review", "pull_request_review_comment"} ->
           {[ZeroBody EXCEPT !.repo = r, !.sha = "c1", !.action = a,
                             !.number = n]
              : r \in Repos, a \in {"submitted", ""}, n \in Numbers}
      [] eventType = "commit_comment" ->
           {[ZeroBody EXCEPT !.repo = r, !.sha = "c1", !.action = "created"]
              : r \in Repos}
      [] eventType = "create" ->
           {[ZeroBody EXCEPT !.repo = r, !.ref = "0.0.1"] : r \in Repos}
      [] eventType \in {"deployment", "deployment_status"} ->
           {[ZeroBody EXCEPT !.repo = r, !.sha = "c1", !.ref = "master"]
              : r \in Repos}
      [] eventType = "release" ->
           {[ZeroBody EXCEPT !.repo = r, !.action = "published",
                             !.ref = "0.0.1"] : r \in Repos}
      [] eventType = "status" ->
           {[ZeroBody EXCEPT !.repo = r, !.sha = "c1"] : r \in Repos}
      [] eventType = "check_suite" ->
           {[ZeroBody EXCEPT !.repo = r, !.sha = "c1", !.action = a,
                             !.ref = "changes", !.appID = ap,
                             !.instID = i, !.prs = ps]
              : r \in Repos, a \in {"requested", "completed"},
                ap \in {1, 2}, i \in InstallationIDs,
                ps \in PRListsUpTo(MaxPullRequests)}
      [] eventType = "check_run" ->
           {[ZeroBody EXCEPT !.repo = r, !.sha = "c1", !.runSha = "c3",
                             !.action = "rerequested",
                             !.ref = "changes", !.appID = ap,
                             !.runAppID = rap, !.instID = i, !.prs = ps]
              : r \in Repos, ap \in {1, 2}, rap \in {0, 1, 2},
                i \in InstallationIDs, ps \in PRListsUpTo(MaxPullRequests)}
      [] eventType = "issue_comment" ->
           {[ZeroBody EXCEPT !.repo = r, !.action = a, !.number = n,
                             !.assoc = as, !.instID = i, !.isPR = p,
                             !.issueID = 21]
              : r \in Repos, a \in {"created", "edited", "deleted"},
                n \in Numbers, as \in Associations, i \in InstallationIDs,
                p \in BOOLEAN}
      [] OTHER -> {[ZeroBody EXCEPT !.repo = <<"o", "r">>]}

Bodies(eventType) == NonObjectBodies \cup ObjectBodies(eventType)

(***************************************************************************)
(* Signatures.  HMAC-SHA1 is taken as an ideal keyed hash: the digest of   *)
(* (key, message) is the tagged pair, equal only for equal key and         *)
(* message.  An absent X-Hub-Signature header reads as the empty string.   *)
(***************************************************************************)
SHA1HMAC(salt, message) == <<"sha1=", salt, message>>

NoSignature == <<>>

\* Headers a sender may attach to body b: none, the digest under a
\* project's secret, under the default secret, and a digest of other bytes.
Signatures(b) ==
    {NoSignature, SHA1HMAC("s1", b), SHA1HMAC("dflt", b),
     SHA1HMAC("s1", RawBody("malformed"))}

Requests ==
    UNION {[eventType : {e}, body : {b}, signature : Signatures(b)]
             : <<e, b>> \in UNION {{<<e2, b2>> : b2 \in Bodies(e2)} : e2 \in EventTypes}}

(***************************************************************************)
(* State.                                                                  *)
(***************************************************************************)
VARIABLES
    cfg,         \* githubHook.opts and githubHook.allowedAuthors
    projects,    \* the build store's projects
    cancelled,   \* the context of the request being handled is cancelled
    req,         \* the delivery: X-GitHub-Event, body bytes, X-Hub-Signature
    pc,          \* where the handling goroutine is
    handler,     \* the handler Handle dispatched to
    repo,        \* handler local: repository full name
    rev,         \* handler local: brigade.Revision
    action,      \* handler local: the event's action
    res,         \* handleCheck local: *Payload (set = FALSE is the nil pointer)
    proj,        \* handler local: the validated project
    tok,         \* installation token held by the running adapter / enricher
    cs,          \* prToCheckSuite local: ID of the suite to re-request (0: none)
    payload,     \* payload handed to scheduleBuild
    opts,        \* buildOpts handed to scheduleBuild
    resp,        \* the c.JSON writes made so far, in order
    builds,      \* store.CreateBuild calls of this delivery, in order
    calls,       \* calls made to the store, GitHub and the reporter, in order
    podToBuild,  \* BuildReporter.podToBuild
    indexer,     \* BuildReporter.indexer: the pods of the namespace, by key
    wq,          \* BuildReporter.queue: the rate-limiting work queue
    worker,      \* the reporter's worker goroutines: what they hold and have done
    comments,    \* the issue comments the reporter asked GitHub to create
    run,         \* BuildReporter.Run: where it is, stopCh, and the informer's sync
    adding,      \* podToBuild insertions that handler goroutines are in the middle of
    panicked     \* the handler goroutine panicked (gin.Recovery took over)

vars == <<cfg, projects, cancelled, req, pc, handler, repo, rev, action, res, proj, tok, cs,
          payload, opts, resp, builds, calls, podToBuild, indexer, wq, worker,
          comments, run, adding, panicked>>

env == <<cfg, projects, cancelled>>
locals == <<handler, repo, rev, action, res, proj, tok, cs, payload, opts>>
effects == <<builds, calls, podToBuild, indexer>>
watch == <<wq, worker, comments, run, adding>>

NilRes == [set |-> FALSE, AppID |-> 0, InstID |-> 0, Type |-> ""]
NoRev == [commit |-> "", ref |-> ""]
NoOpts == [tok |-> "", issueID |-> 0]

\* []byte payloads: the request's bytes as they are, or the JSON of a
\* webhook.Payload wrapping them.
RawPayload(b) ==
    [form |-> "raw", type |-> "", token |-> "", tokenExpires |-> "",
     commit |-> "", branch |-> "", body |-> b]

EmptyPayload == RawPayload(RawBody("empty"))

PayloadLen(p) == IF p.form = "raw" THEN BodyLen(p.body) ELSE 2

\* The reporter before any pod was seen: an empty indexer, an empty queue
\* (waiting keys, keys re-added while processed, keys being processed, keys
\* in their retry delay, requeue counts, informer events delivered, and
\* whether ShutDown was called), and no key held by a worker.
NoPods == <<>>

NoKey == <<>>

EmptyQueue ==
    [queue |-> <<>>, dirty |-> {}, processing |-> {}, waiting |-> {},
     requeues |-> <<>>, events |-> 0, shuttingDown |-> FALSE]

NoUpdate == [key |-> NoKey, exists |-> FALSE, phase |-> "", registered |-> FALSE,
             attempted |-> FALSE, err |-> ""]
\* The worker goroutines: how many Run started, how many have returned,
\* the keys they hold between Get and Done, and what they have done.
IdleWorker ==
    [started |-> 0, exited |-> 0, holding |-> EmptyBag, processed |-> <<>>,
     last |-> NoUpdate]

\* Run has not been called: no informer, no worker, stopCh open.
NotStarted ==
    [pc |-> "off", threadiness |-> 0, synced |-> FALSE, stopped |-> FALSE,
     fatal |-> FALSE]

\* Add: podName := "brigade-worker-<b.ID>"
podName(id) == <<"brigade-worker", id>>

\* cache.MetaNamespaceKeyFunc: <namespace>/<name>
Key(name) == <<"ns">> \o name

\* c.podToBuild[podName] = entry
Registered(m, entry) == {c \in m : c.pod # entry.pod} \cup {entry}

\* c.indexer.Add(&v1.Pod{Name: podName, Namespace: ns}): the object stored
\* under the key, whatever was there, is a pod with no status.
Placed(ix, name) ==
    [k \in DOMAIN ix \cup {Key(name)} |->
        IF k = Key(name) THEN [name |-> name, phase |-> ""] ELSE ix[k]]

NoRequest == [eventType |-> "", body |-> RawBody("empty"), signature |-> NoSignature]

Constructed ==
    /\ cfg \in Configs
    /\ projects \in StoreStates
    /\ cancelled = FALSE
    /\ req = NoRequest
    /\ pc = "idle"
    /\ handler = ""
    /\ repo = <<>>
    /\ rev = NoRev
    /\ action = ""
    /\ res = NilRes
    /\ proj = NoProject
    /\ tok = ""
    /\ cs = 0
    /\ payload = EmptyPayload
    /\ opts = NoOpts
    /\ resp = <<>>
    /\ builds = <<>>
    /\ calls = <<>>
    /\ podToBuild = {}
    /\ indexer = NoPods
    /\ wq = EmptyQueue
    /\ comments = {}
    /\ adding = {}
    /\ panicked = FALSE

\* The gateway as main leaves it before reporter.Run is called.
Init ==
    /\ Constructed
    /\ worker = IdleWorker
    /\ run = NotStarted

(***************************************************************************)
(* Pure helpers of the webhook package.                                    *)
(***************************************************************************)
NilEvent == [type |-> "nil", e |-> ZeroBody]

\* github.ParseWebHook: the event name selects the Go type the body is
\* unmarshalled into; an unknown name or a body that is not its JSON fails.
ParseWebHook(eventType, body) ==
    IF eventType \notin ParserKnown \/ body.kind # "object"
    THEN [err |-> TRUE, event |-> NilEvent]
    ELSE [err |-> FALSE, event |-> [type |-> eventType, e |-> body]]

\* The interface value `event` Handle passes to the handlers.
event ==
    IF BodyLen(req.body) > 1
    THEN ParseWebHook(req.eventType, req.body).event
    ELSE NilEvent

PullRef(n) == "refs/pull/" \o ToString(n) \o "/head"

isAllowedAuthor(author) == author \in cfg.allowedAuthors

\* Faulty variant: the author association is asked of every pull request, forked
\* or not.
isAllowedPullRequestAnyRepo(e) ==
    IF ~isAllowedAuthor(e.assoc)
    THEN FALSE
    ELSE e.action \in {"opened", "synchronize", "reopened", "labeled",
                       "unlabeled", "closed"}

isAllowedPullRequest(e) ==
    IF e.fork /\ ~isAllowedAuthor(e.assoc)
    THEN FALSE
    ELSE e.action \in {"opened", "synchronize", "reopened", "labeled",
                       "unlabeled", "closed"}

\* Faulty variant: the filter lets every type through.
shouldEmitAll(eventType) == TRUE

\* Faulty variant: a pattern matches only the type it equals, or as "*".
shouldEmitExact(eventType) ==
    \E emitableEvent \in cfg.EmittedEvents :
        eventType = emitableEvent \/ emitableEvent = <<"*">>

shouldEmit(eventType) ==
    LET unqualifiedEventType == <<Head(eventType)>>
    IN \E emitableEvent \in cfg.EmittedEvents :
          \/ eventType = emitableEvent
          \/ unqualifiedEventType = emitableEvent
          \/ emitableEvent = <<"*">>

\* TRUE when validation fails (the Go function returns an error).
validateSignature(signature, secretKey, body) ==
    SHA1HMAC(secretKey, body) # signature

GetProject(name) ==
    IF \E p \in projects : p.name = name
    THEN [err |-> FALSE, proj |-> CHOOSE p \in projects : p.name = name]
    ELSE [err |-> TRUE, proj |-> NoProject]

\* Faulty variant: the signature is not compared.
ValidatedProjectUnsigned(repoName, body, signature) ==
    LET got == GetProject(repoName)
        sharedSecret == IF got.proj.sharedSecret = ""
                        THEN cfg.DefaultSharedSecret
                        ELSE got.proj.sharedSecret
    IN IF got.err
       THEN [err |-> TRUE, status |-> 400, msg |-> "project not found", proj |-> NoProject]
       ELSE IF sharedSecret = ""
       THEN [err |-> TRUE, status |-> 500,
             msg |-> "No secret is configured for this repo.", proj |-> NoProject]
       ELSE [err |-> FALSE, status |-> 0, msg |-> "", proj |-> got.proj]

\* Faulty variant: the gateway's default secret is preferred to the project's.
ValidatedProjectDefaultFirst(repoName, body, signature) ==
    LET got == GetProject(repoName)
        sharedSecret == IF cfg.DefaultSharedSecret = ""
                        THEN got.proj.sharedSecret
                        ELSE cfg.DefaultSharedSecret
    IN IF got.err
       THEN [err |-> TRUE, status |-> 400, msg |-> "project not found", proj |-> NoProject]
       ELSE IF sharedSecret = ""
       THEN [err |-> TRUE, status |-> 500,
             msg |-> "No secret is configured for this repo.", proj |-> NoProject]
       ELSE IF validateSignature(signature, sharedSecret, body)
       THEN [err |-> TRUE, status |-> 403, msg |-> "malformed signature", proj |-> NoProject]
       ELSE [err |-> FALSE, status |-> 0, msg |-> "", proj |-> got.proj]

\* getValidatedProject as a function of its inputs: the status it writes
\* (0 when it writes none) and the project it returns.
ValidatedProject(repoName, body, signature) ==
    LET got == GetProject(repoName)
        sharedSecret == IF got.proj.sharedSecret = ""
                        THEN cfg.DefaultSharedSecret
                        ELSE got.proj.sharedSecret
    IN IF got.err
       THEN [err |-> TRUE, status |-> 400, msg |-> "project not found", proj |-> NoProject]
       ELSE IF sharedSecret = ""
       THEN [err |-> TRUE, status |-> 500,
             msg |-> "No secret is configured for this repo.", proj |-> NoProject]
       ELSE IF validateSignature(signature, sharedSecret, body)
       THEN [err |-> TRUE, status |-> 403, msg |-> "malformed signature", proj |-> NoProject]
       ELSE [err |-> FALSE, status |-> 0, msg |-> "", proj |-> got.proj]

\* Faulty variant: the request body is handed on as it came.
marshalRaw(type, token, expires, commit, branch, body) ==
    [err |-> FALSE, payload |-> RawPayload(body)]

\* marshalWithGithubPayload: the body re-parsed as a generic JSON object and
\* wrapped in the Payload; fails when the body is no JSON object.
marshalWithGithubPayload(type, token, expires, commit, branch, body) ==
    IF body.kind # "object"
    THEN [err |-> TRUE, payload |-> EmptyPayload]
    ELSE [err |-> FALSE,
          payload |-> [form |-> "wrapped", type |-> type, token |-> token,
                       tokenExpires |-> expires, commit |-> commit,
                       branch |-> branch, body |-> body]]

\* getInstallationToken refuses a zero app or installation ID before it
\* signs a JWT.
ZeroIDs(appID, instID) == appID = 0 \/ instID = 0

InstallationToken == "v1.itok"

\* itok.GetExpiresAt() of that token.
InstallationTokenExpiry == "expires in 60 minutes"

\* An entry of the call log: the operation, the function that made the
\* call, and whether it succeeded.
Call(op, by, ok) == [op |-> op, by |-> by, ok |-> ok]

JSON(status, msg) == Append(resp, [status |-> status, msg |-> msg])

Done(r) == /\ pc' = "done"
           /\ resp' = r
           /\ panicked' = FALSE

Goto(l) == /\ pc' = l
           /\ UNCHANGED <<resp, panicked>>

\* A nil dereference or an index out of range: the goroutine unwinds into
\* gin.Recovery, which answers 500 unless the header is already written.
Panic == /\ pc' = "done"
         /\ panicked' = TRUE
         /\ resp' = IF resp = <<>> THEN JSON(500, "") ELSE resp

(***************************************************************************)
(* Handle: read the body, parse it, route on X-GitHub-Event.               *)
(***************************************************************************)
Handle ==
    /\ pc = "idle"
    /\ \E r \in Requests :
        /\ req' = r
        /\ IF r.body.kind = "unreadable"
           THEN /\ Done(JSON(400, "Malformed body"))
                /\ handler' = ""
           ELSE IF BodyLen(r.body) > 1 /\ ParseWebHook(r.eventType, r.body).err
           THEN /\ Done(JSON(400, "Malformed body"))
                /\ handler' = ""
           ELSE IF r.eventType = "ping"
           THEN /\ Done(JSON(200, "OK"))
                /\ handler' = ""
           ELSE IF r.eventType \in HandleEventKinds
           THEN /\ Goto("handleEvent")
                /\ handler' = "handleEvent"
           ELSE IF r.eventType \in CheckKinds
           THEN /\ Goto("handleCheck")
                /\ handler' = "handleCheck"
           ELSE IF r.eventType = "issue_comment"
           THEN /\ Goto("handleIssueComment")
                /\ handler' = "handleIssueComment"
           ELSE /\ Done(JSON(200, "Ignored"))
                /\ handler' = ""
    /\ UNCHANGED <<env, watch, repo, rev, action, res, proj, tok, cs, payload, opts, effects>>

(***************************************************************************)
(* handleEvent, up to its call of getValidatedProject.                     *)
(***************************************************************************)
\* Faulty variant: a push is built whether or not it deletes the branch.
handleEventSwitchNoDeleted(ev) ==
    LET e == ev.e
        go(a, c, r) == [answer |-> "", action |-> a, repo |-> e.repo,
                        rev |-> [commit |-> c, ref |-> r]]
        stop(m) == [answer |-> m, action |-> "", repo |-> <<>>, rev |-> NoRev]
    IN CASE ev.type = "commit_comment" -> go(e.action, e.sha, "")
         [] ev.type = "create" -> go("", "", e.ref)
         [] ev.type \in {"deployment", "deployment_status"} -> go("", e.sha, e.ref)
         [] ev.type = "pull_request" ->
              IF ~isAllowedPullRequest(e)
              THEN stop("build skipped")
              ELSE go(e.action, e.sha, PullRef(e.number))
         [] ev.type \in {"pull_request_review", "pull_request_review_comment"} ->
              go(e.action, e.sha, PullRef(e.number))
         [] ev.type = "push" -> go("", e.sha, e.ref)
         [] ev.type = "release" -> go(e.action, "", e.ref)
         [] ev.type = "status" -> go("", e.sha, "")
         [] OTHER -> stop("Received data is not valid JSON")

\* The type switch: what it answers at once ("" when it goes on) and the
\* locals it sets.
handleEventSwitch(ev) ==
    LET e == ev.e
        go(a, c, r) == [answer |-> "", action |-> a, repo |-> e.repo,
                        rev |-> [commit |-> c, ref |-> r]]
        stop(m) == [answer |-> m, action |-> "", repo |-> <<>>, rev |-> NoRev]
    IN CASE ev.type = "commit_comment" -> go(e.action, e.sha, "")
         [] ev.type = "create" -> go("", "", e.ref)
         [] ev.type \in {"deployment", "deployment_status"} -> go("", e.sha, e.ref)
         [] ev.type = "pull_request" ->
              IF ~isAllowedPullRequest(e)
              THEN stop("build skipped")
              ELSE go(e.action, e.sha, PullRef(e.number))
         [] ev.type \in {"pull_request_review", "pull_request_review_comment"} ->
              go(e.action, e.sha, PullRef(e.number))
         [] ev.type = "push" ->
              IF e.deleted
              THEN stop("build skipped on branch deletion")
              ELSE go("", e.sha, e.ref)
         [] ev.type = "release" -> go(e.action, "", e.ref)
         [] ev.type = "status" -> go("", e.sha, "")
         [] OTHER -> stop("Received data is not valid JSON")

handleEvent ==
    /\ pc = "handleEvent"
    /\ LET sw == handleEventSwitch(event)
       IN IF sw.answer = "Received data is not valid JSON"
          THEN /\ Done(JSON(400, sw.answer))
               /\ UNCHANGED <<repo, rev, action>>
          ELSE IF sw.answer # ""
          THEN /\ Done(JSON(200, sw.answer))
               /\ UNCHANGED <<repo, rev, action>>
          ELSE /\ Goto("getValidatedProject")
               /\ repo' = sw.repo
               /\ rev' = sw.rev
               /\ action' = sw.action
    /\ UNCHANGED <<env, watch, req, handler, cs, res, proj, tok, payload, opts, effects>>

\* handleEvent's pre: the pull request event, nil for the other kinds.
preIsSet == handler = "handleEvent" /\ event.type = "pull_request"

(***************************************************************************)
(* handleCheck, up to its call of getValidatedProject.                     *)
(***************************************************************************)
\* Faulty variant: a check run is attributed to its suite's app, whatever app the
\* run itself names.
handleCheckSwitchSuiteApp(ev) ==
    LET e == ev.e
        go(t, app) ==
            IF app # cfg.AppID
            THEN [return |-> TRUE, res |-> NilRes, action |-> "", repo |-> <<>>,
                  rev |-> NoRev]
            ELSE [return |-> FALSE,
                  res |-> [set |-> TRUE, AppID |-> app, InstID |-> e.instID, Type |-> t],
                  action |-> e.action, repo |-> e.repo,
                  rev |-> [commit |-> e.sha, ref |-> e.ref]]
    IN CASE ev.type = "check_suite" -> go("check_suite", e.appID)
         [] ev.type = "check_run" -> go("check_run", e.appID)
         [] OTHER -> [return |-> FALSE, res |-> NilRes, action |-> "",
                      repo |-> <<>>, rev |-> NoRev]

\* Faulty variant: a check run is built at the head SHA the run itself names.
handleCheckSwitchRunSHA(ev) ==
    LET e == ev.e
        suiteApp == e.appID
        runApp == IF e.runAppID = 0 THEN e.appID ELSE e.runAppID
        go(t, app) ==
            IF app # cfg.AppID
            THEN [return |-> TRUE, res |-> NilRes, action |-> "", repo |-> <<>>,
                  rev |-> NoRev]
            ELSE [return |-> FALSE,
                  res |-> [set |-> TRUE, AppID |-> app, InstID |-> e.instID, Type |-> t],
                  action |-> e.action, repo |-> e.repo,
                  rev |-> [commit |-> IF t = "check_run" THEN e.runSha ELSE e.sha,
                           ref |-> e.ref]]
    IN CASE ev.type = "check_suite" -> go("check_suite", suiteApp)
         [] ev.type = "check_run" -> go("check_run", runApp)
         [] OTHER -> [return |-> FALSE, res |-> NilRes, action |-> "",
                      repo |-> <<>>, rev |-> NoRev]

handleCheckSwitch(ev) ==
    LET e == ev.e
        suiteApp == e.appID
        runApp == IF e.runAppID = 0 THEN e.appID ELSE e.runAppID
        go(t, app) ==
            IF app # cfg.AppID
            THEN [return |-> TRUE, res |-> NilRes, action |-> "", repo |-> <<>>,
                  rev |-> NoRev]
            ELSE [return |-> FALSE,
                  res |-> [set |-> TRUE, AppID |-> app, InstID |-> e.instID, Type |-> t],
                  action |-> e.action, repo |-> e.repo,
                  rev |-> [commit |-> e.sha, ref |-> e.ref]]
    IN CASE ev.type = "check_suite" -> go("check_suite", suiteApp)
         [] ev.type = "check_run" -> go("check_run", runApp)
         [] OTHER -> [return |-> FALSE, res |-> NilRes, action |-> "",
                      repo |-> <<>>, rev |-> NoRev]

handleCheck ==
    /\ pc = "handleCheck"
    /\ LET sw == handleCheckSwitch(event)
       IN IF sw.return
          THEN /\ Done(resp)
               /\ UNCHANGED <<repo, rev, action, res>>
          ELSE /\ Goto("getValidatedProject")
               /\ repo' = sw.repo
               /\ rev' = sw.rev
               /\ action' = sw.action
               /\ res' = sw.res
    /\ UNCHANGED <<env, watch, req, handler, cs, proj, tok, payload, opts, effects>>

(***************************************************************************)
(* handleIssueComment, up to its call of getValidatedProject.              *)
(***************************************************************************)
iceIsSet == handler = "handleIssueComment" /\ event.type = "issue_comment"

handleIssueComment ==
    /\ pc = "handleIssueComment"
    /\ IF event.type = "issue_comment"
       THEN /\ Goto("getValidatedProject")
            /\ action' = event.e.action
            /\ repo' = event.e.repo
       ELSE /\ Done(JSON(400, "Received data is not supported or not valid JSON"))
            /\ UNCHANGED <<repo, action>>
    /\ UNCHANGED <<env, watch, req, handler, cs, rev, res, proj, tok, payload, opts, effects>>

\* handleIssueComment enriches the event when the comment was created or
\* edited on a pull request by an allowed author.
shouldEnrich ==
    /\ iceIsSet
    /\ action \in {"created", "edited"}
    /\ event.e.isPR
    /\ isAllowedAuthor(event.e.assoc)

\* Faulty variant: the adapter runs for every pull request action.
shouldCheckSuiteAnyAction ==
    /\ req.eventType = "pull_request"
    /\ cfg.CheckSuiteOnPR

\* handleEvent runs the check-suite adapter for these pull requests.
shouldCheckSuite ==
    /\ req.eventType = "pull_request"
    /\ cfg.CheckSuiteOnPR
    /\ action \in {"opened", "synchronize", "reopened"}

(***************************************************************************)
(* getValidatedProject, and where each handler goes from it.               *)
(***************************************************************************)
AfterValidation ==
    CASE handler = "handleEvent" ->
           IF shouldCheckSuite THEN "prToCheckSuite" ELSE "preToBuildOpts"
      [] handler = "handleCheck" -> "getInstallationToken"
      [] OTHER ->
           IF shouldEnrich THEN "updateIssueCommentEvent" ELSE "icePayloadToBuildOpts"

getValidatedProject ==
    /\ pc = "getValidatedProject"
    /\ LET v == ValidatedProject(repo, req.body, req.signature)
       IN IF v.err
          THEN /\ Done(JSON(v.status, v.msg))
               /\ UNCHANGED proj
          ELSE /\ Goto(AfterValidation)
               /\ proj' = v.proj
    /\ calls' = Append(calls, Call("GetProject", "getValidatedProject",
                                   ~GetProject(repo).err))
    /\ UNCHANGED <<env, watch, req, handler, cs, repo, rev, action, res, tok, payload, opts,
                   builds, podToBuild, indexer>>

(***************************************************************************)
(* Installation tokens.  getInstallationToken refuses zero IDs; otherwise  *)
(* installationToken signs a JWT, builds a client and asks GitHub, and any *)
(* of the three may fail.                                                  *)
(***************************************************************************)
MintOutcomes(appID, instID) ==
    IF ZeroIDs(appID, instID) THEN {"refused"} ELSE {"ok", "failed"}

\* The call log after `by` negotiated a token with outcome `out`.
Minted(out, by) ==
    IF out = "refused"
    THEN calls
    ELSE Append(calls, Call("installationToken", by, out = "ok"))

\* InstallationTokenClient fails only on URLs that do not parse.
InstallationTokenClientErr(p) == ~p.github.urlOK

\* strings.Split(repo, "/") must give exactly owner and name.
InvalidRepoName(r) == Len(r) # 2

PanicAfter(r) ==
    /\ pc' = "done"
    /\ panicked' = TRUE
    /\ resp' = IF r = <<>> THEN JSON(500, "") ELSE r

(***************************************************************************)
(* prToCheckSuite, called by handleEvent for opened / synchronize /        *)
(* reopened pull requests; handleEvent answers its errors.                 *)
(***************************************************************************)
\* An ErrAuthFailed is answered 403 and, with no return in between, 500.
AuthFailedAnswer == Append(JSON(403, "Auth Failed"), [status |-> 500, msg |-> "Auth Failed"])

prToCheckSuite ==
    /\ pc = "prToCheckSuite"
    /\ \E out \in MintOutcomes(cfg.AppID, event.e.instID) :
        /\ LET invoked == Append(calls, Call("prToCheckSuite", "handleEvent", TRUE))
           IN calls' = IF out = "refused"
                       THEN invoked
                       ELSE Append(invoked, Call("installationToken", "prToCheckSuite",
                                                 out = "ok"))
        /\ IF out # "ok" \/ InstallationTokenClientErr(proj)
           THEN /\ Done(AuthFailedAnswer)
                /\ UNCHANGED tok
           ELSE IF InvalidRepoName(repo)
           THEN /\ Done(JSON(500, "invalid repo name"))
                /\ UNCHANGED tok
           ELSE /\ Goto("CreateCheckSuite")
                /\ tok' = InstallationToken
    /\ UNCHANGED <<env, watch, req, handler, cs, repo, rev, action, res, proj, payload, opts,
                   builds, podToBuild, indexer>>

\* IDs GitHub gives check suites: the one it creates, the ones it lists.
CreatedSuiteID == 31
ListedSuites == {<<>>, <<41>>, <<41, 42>>}

\* Faulty variant: the last suite listed is taken.
LastSuite(csl) == csl[Len(csl)]

\* csl.CheckSuites[0]
FirstSuite(csl) == csl[1]

\* A call-log entry that also records what the call was made for.
CallWith(op, by, ok, arg) == [op |-> op, by |-> by, ok |-> ok, arg |-> arg]

\* The HTTP status of each outcome of CreateCheckSuite (0: no response).
Status(out) ==
    CASE out = "created" -> 201
      [] out = "exists422" -> 422
      [] out = "failed" -> 500
      [] OTHER -> 0

CreateCheckSuite ==
    /\ pc = "CreateCheckSuite"
    /\ \E out \in {"created", "exists422", "failed", "noresponse"} :
        /\ calls' = Append(calls, CallWith("CreateCheckSuite", "prToCheckSuite",
                                           out = "created",
                                           [sha |-> event.e.sha, status |-> Status(out)]))
        /\ CASE out = "created" ->
                  Goto("ReRequestCheckSuite") /\ cs' = CreatedSuiteID /\ UNCHANGED tok
             [] out = "exists422" ->
                  Goto("ListCheckSuitesForRef") /\ UNCHANGED <<tok, cs>>
             [] out = "failed" ->
                  Done(JSON(500, "could not create check suite")) /\ tok' = ""
                    /\ UNCHANGED cs
             [] OTHER -> \* res.StatusCode on the nil response
                  Panic /\ tok' = "" /\ UNCHANGED cs
    /\ UNCHANGED <<env, watch, req, handler, repo, rev, action, res, proj, payload, opts,
                   builds, podToBuild, indexer>>

ListCheckSuitesForRef ==
    /\ pc = "ListCheckSuitesForRef"
    /\ \E ok \in BOOLEAN, csl \in ListedSuites :
        /\ ~ok => csl = <<>>
        /\ calls' = Append(calls, CallWith("ListCheckSuitesForRef", "prToCheckSuite", ok,
                                           [sha |-> event.e.sha, appID |-> cfg.AppID,
                                            suites |-> csl]))
        /\ IF ok /\ Len(csl) > 0
           THEN Goto("ReRequestListed") /\ cs' = FirstSuite(csl) /\ UNCHANGED tok
           ELSE Goto("preToBuildOpts") /\ tok' = "" /\ UNCHANGED cs
    /\ UNCHANGED <<env, watch, req, handler, repo, rev, action, res, proj, payload, opts,
                   builds, podToBuild, indexer>>

ReRequestCheckSuite ==
    /\ pc \in {"ReRequestCheckSuite", "ReRequestListed"}
    /\ tok' = ""
    /\ \E ok \in BOOLEAN :
        /\ calls' = Append(calls, CallWith("ReRequestCheckSuite", "prToCheckSuite",
                                           ok, [suite |-> cs]))
        /\ IF pc = "ReRequestCheckSuite" /\ ~ok
           THEN Done(JSON(500, "rerequest failed"))
           ELSE Goto("preToBuildOpts")
    /\ UNCHANGED <<env, watch, req, handler, repo, rev, action, res, proj, payload, opts,
                   builds, podToBuild, indexer, cs>>

(***************************************************************************)
(* handleEvent after the adapter: preToBuildOpts, whose error is only      *)
(* logged.                                                                 *)
(***************************************************************************)
preToBuildOpts ==
    /\ pc = "preToBuildOpts"
    /\ IF preIsSet
       THEN \E out \in MintOutcomes(cfg.AppID, event.e.instID) :
               /\ calls' = Minted(out, "preToBuildOpts")
               /\ opts' = IF out = "ok"
                          THEN [tok |-> InstallationToken, issueID |-> event.e.prID]
                          ELSE NoOpts
       ELSE /\ opts' = NoOpts
            /\ UNCHANGED calls
    /\ payload' = RawPayload(req.body)
    /\ Goto("scheduleBuild")
    /\ UNCHANGED <<env, watch, req, handler, cs, repo, rev, action, res, proj, tok,
                   builds, podToBuild, indexer>>

(***************************************************************************)
(* handleCheck after validation: token, payload, build options.            *)
(***************************************************************************)
handleCheckToken ==
    /\ pc = "getInstallationToken"
    /\ IF ~res.set
       THEN \* res.AppID on the nil *Payload
            /\ Panic
            /\ UNCHANGED <<calls, payload, opts>>
       ELSE \E out \in MintOutcomes(res.AppID, res.InstID) :
               /\ calls' = Minted(out, "handleCheck")
               /\ IF out # "ok"
                  THEN /\ Done(JSON(403, "Auth Failed"))
                       /\ UNCHANGED <<payload, opts>>
                  ELSE LET m == marshalWithGithubPayload(res.Type, InstallationToken,
                                        InstallationTokenExpiry, "", "", req.body)
                           r == IF m.err THEN JSON(500, "JSON encoding error") ELSE resp
                       IN IF event.e.prs = <<>>
                          THEN \* checkEventToBuildOpts: PullRequests[0]
                               /\ PanicAfter(r)
                               /\ UNCHANGED <<payload, opts>>
                          ELSE /\ pc' = "scheduleBuild"
                               /\ resp' = r
                               /\ UNCHANGED panicked
                               /\ payload' = m.payload
                               /\ opts' = [tok |-> InstallationToken,
                                           issueID |-> event.e.prs[1]]
    /\ UNCHANGED <<env, watch, req, handler, cs, repo, rev, action, res, proj, tok,
                   builds, podToBuild, indexer>>

(***************************************************************************)
(* handleIssueComment after validation: the enricher, then the options.    *)
(***************************************************************************)
updateIssueCommentEvent ==
    /\ pc = "updateIssueCommentEvent"
    /\ LET appID == IF event.e.instAppID = 0 THEN cfg.AppID ELSE event.e.instAppID
       IN \E out \in MintOutcomes(appID, event.e.instID) :
            /\ calls' = Minted(out, "updateIssueCommentEvent")
            /\ IF out # "ok"
               THEN /\ pc' = "icePayloadToBuildOpts"
                    /\ resp' = JSON(403, "Auth Failed")
                    /\ payload' = RawPayload(req.body)
                    /\ UNCHANGED tok
               ELSE /\ pc' = "getPRFromIssueComment"
                    /\ tok' = InstallationToken
                    /\ UNCHANGED <<resp, payload>>
    /\ UNCHANGED <<env, watch, req, handler, cs, repo, rev, action, res, proj, opts,
                   builds, podToBuild, indexer, panicked>>

\* The head SHA of the pull request GitHub returns.
PullRequestHeadSHA == "c2"

getPRFromIssueComment ==
    /\ pc = "getPRFromIssueComment"
    /\ tok' = ""
    /\ pc' = "icePayloadToBuildOpts"
    /\ IF InstallationTokenClientErr(proj) \/ InvalidRepoName(repo)
       THEN /\ resp' = JSON(500, "failed to fetch pull request for corresponding issue comment")
            /\ payload' = RawPayload(req.body)
            /\ UNCHANGED <<rev, calls>>
       ELSE \E ok \in BOOLEAN :
             /\ calls' = Append(calls, Call("PullRequests.Get", "getPRFromIssueComment", ok))
             /\ IF ~ok
                THEN /\ resp' = JSON(500, "failed to fetch pull request for corresponding issue comment")
                     /\ payload' = RawPayload(req.body)
                     /\ UNCHANGED rev
                ELSE LET r == [commit |-> PullRequestHeadSHA,
                               ref |-> PullRef(event.e.number)]
                         m == marshalWithGithubPayload("issue_comment", tok,
                                        InstallationTokenExpiry, r.commit, r.ref, req.body)
                     IN /\ rev' = r
                        /\ payload' = m.payload
                        /\ resp' = IF m.err THEN JSON(500, "JSON encoding error") ELSE resp
    /\ UNCHANGED <<env, watch, req, handler, cs, repo, action, res, proj, opts,
                   builds, podToBuild, indexer, panicked>>

icePayloadToBuildOpts ==
    /\ pc = "icePayloadToBuildOpts"
    /\ rev' = IF rev.ref = "" THEN [rev EXCEPT !.ref = "refs/heads/master"] ELSE rev
    /\ IF ~iceIsSet
       THEN /\ opts' = NoOpts
            /\ UNCHANGED calls
       ELSE IF PayloadLen(payload) > 0
       THEN /\ opts' = [tok |-> payload.token, issueID |-> event.e.issueID]
            /\ UNCHANGED calls
       ELSE LET appID == IF event.e.instAppID = 0 THEN cfg.AppID ELSE event.e.instAppID
            IN \E out \in MintOutcomes(appID, event.e.instID) :
                 /\ calls' = Minted(out, "icePayloadToBuildOpts")
                 /\ opts' = IF out = "ok"
                            THEN [tok |-> InstallationToken, issueID |-> event.e.issueID]
                            ELSE NoOpts
    /\ Goto("scheduleBuild")
    /\ UNCHANGED <<env, watch, req, handler, cs, repo, action, res, proj, tok, payload,
                   builds, podToBuild, indexer>>

(***************************************************************************)
(* scheduleBuild: build(eventType), then build(eventType:action).          *)
(***************************************************************************)
\* doBuild: nothing when the emission filter drops the type (b = nil),
\* else the build handed to store.CreateBuild, which may reject it.
doBuild(eventType, storeErr) ==
    IF ~shouldEmit(eventType)
    THEN [nil |-> TRUE, err |-> FALSE]
    ELSE [nil |-> FALSE, err |-> storeErr]

Build(eventType, storeErr) ==
    [id |-> Len(builds) + 1, projectID |-> proj.id, type |-> eventType,
     provider |-> "github", revision |-> rev, payload |-> payload,
     err |-> storeErr]

\* BuildReporter.Add's entry for build b.
CommentableBuild(b) ==
    [pod |-> podName(b.id), underlying |-> [id |-> b.id, projectID |-> b.projectID],
     issueNumber |-> opts.issueID, installationToken |-> opts.tok]

build(eventType, next) ==
    \E storeErr \in (IF shouldEmit(eventType) THEN BOOLEAN ELSE {FALSE}) :
        LET d == doBuild(eventType, storeErr)
            b == Build(eventType, storeErr)
            report == opts.tok # "" /\ opts.issueID # 0 /\ cfg.ReportBuildFailures
        IN /\ builds' = IF d.nil THEN builds ELSE Append(builds, b)
           /\ IF d.err
              THEN /\ Goto(next)
                   /\ calls' = Append(calls, Call("CreateBuild", "doBuild", FALSE))
                   /\ UNCHANGED <<podToBuild, indexer>>
              ELSE IF ~report
              THEN /\ Goto(next)
                   /\ calls' = IF d.nil THEN calls
                               ELSE Append(calls, Call("CreateBuild", "doBuild", TRUE))
                   /\ UNCHANGED <<podToBuild, indexer>>
              ELSE IF d.nil
              THEN \* Add(nil, ...) reads b.ID
                   /\ Panic
                   /\ calls' = Append(calls, Call("Add", "build", FALSE))
                   /\ UNCHANGED <<podToBuild, indexer>>
              ELSE /\ Goto(next)
                   /\ calls' = calls \o <<Call("CreateBuild", "doBuild", TRUE),
                                           Call("Add", "build", TRUE)>>
                   /\ podToBuild' = Registered(podToBuild, CommentableBuild(b))
                   /\ indexer' = Placed(indexer, CommentableBuild(b).pod)

\* Faulty variant: the action build is never scheduled.
scheduleBuildOnce ==
    /\ pc = "scheduleBuild"
    /\ build(<<req.eventType>>, "Complete")
    /\ UNCHANGED <<env, watch, req, locals>>

scheduleBuild ==
    /\ pc = "scheduleBuild"
    /\ build(<<req.eventType>>, IF action # "" THEN "scheduleBuildAction" ELSE "Complete")
    /\ UNCHANGED <<env, watch, req, locals>>

scheduleBuildAction ==
    /\ pc = "scheduleBuildAction"
    /\ build(<<req.eventType, action>>, "Complete")
    /\ UNCHANGED <<env, watch, req, locals>>

\* The handler's last statement.
Complete ==
    /\ pc = "Complete"
    /\ Done(JSON(200, "Complete"))
    /\ UNCHANGED <<env, watch, req, locals, effects>>

\* The client goes away while its delivery is handled: the context of the
\* request is cancelled. No handler reads that context.
Cancel ==
    /\ pc \notin {"idle", "done"}
    /\ ~cancelled
    /\ cancelled' = TRUE
    /\ UNCHANGED <<cfg, projects, watch, req, pc, locals, resp, effects, panicked>>

Next ==
    \/ Handle
    \/ Cancel
    \/ handleEvent
    \/ handleCheck
    \/ handleIssueComment
    \/ getValidatedProject
    \/ prToCheckSuite
    \/ CreateCheckSuite
    \/ ListCheckSuitesForRef
    \/ ReRequestCheckSuite
    \/ preToBuildOpts
    \/ handleCheckToken
    \/ updateIssueCommentEvent
    \/ getPRFromIssueComment
    \/ icePayloadToBuildOpts
    \/ scheduleBuild
    \/ scheduleBuildAction
    \/ Complete

Spec == Init /\ [][Next]_vars


(***************************************************************************)
(* The build reporter: the pod informer's handlers, the work queue, and    *)
(* the workers started by Run (processNextBuildPodUpdate in a loop).       *)
(***************************************************************************)
\* Pods of the namespace: the workers of the watched builds, and a pod
\* that belongs to no build.
PodNames == {podName(i) : i \in BuildIDs} \cup {<<"other">>}

\* v1.PodPhase values the API server reports.
Phases == {"Pending", "Running", "Succeeded", "Failed", "Unknown"}

\* main: go reporter.Run(1, stop)
Threadiness == 1

\* The process is up: no goroutine has died of a fatal runtime error.
Alive == ~run.fatal

\* The informer runs from Run's `go c.informer.Run(stopCh)` until stopCh
\* is closed.
InformerRunning == Alive /\ run.pc # "off" /\ ~run.stopped

\* Workers blocked in queue.Get.
Idle == worker.started - worker.exited - BagCardinality(worker.holding)

\* rateLimiter.NumRequeues(key)
NumRequeues(q, key) == IF key \in DOMAIN q.requeues THEN q.requeues[key] ELSE 0

\* Faulty variant: a key being processed is queued again at once.
QueueAddEager(q, key) ==
    IF q.shuttingDown \/ key \in q.dirty
    THEN q
    ELSE [q EXCEPT !.dirty = @ \cup {key}, !.queue = Append(@, key)]

\* queue.Add(key): nothing once the queue is shutting down; a key already
\* marked dirty is not added again; a key being processed is only marked
\* and re-queued by Done.
QueueAdd(q, key) ==
    IF q.shuttingDown \/ key \in q.dirty
    THEN q
    ELSE IF key \in q.processing
    THEN [q EXCEPT !.dirty = @ \cup {key}]
    ELSE [q EXCEPT !.dirty = @ \cup {key}, !.queue = Append(@, key)]

\* queue.Forget(key)
Forget(q, key) ==
    [q EXCEPT !.requeues = [k \in DOMAIN q.requeues \ {key} |-> q.requeues[k]]]

\* queue.AddRateLimited(key): counts the requeue and, unless the queue is
\* shutting down, adds the key after the limiter's delay.
AddRateLimited(q, key) ==
    [q EXCEPT !.requeues = [k \in DOMAIN q.requeues \cup {key} |->
                               IF k = key THEN NumRequeues(q, key) + 1
                               ELSE q.requeues[k]],
              !.waiting = IF q.shuttingDown THEN @ ELSE @ \cup {key}]

\* queue.Done(key)
QueueDone(q, key) ==
    [q EXCEPT !.processing = @ \ {key},
              !.queue = IF key \in q.dirty THEN Append(@, key) ELSE @]

\* Faulty variant: every error is retried.
completeOrRetryAlways(q, err, key) ==
    IF ~err THEN Forget(q, key) ELSE AddRateLimited(q, key)

completeOrRetry(q, err, key) ==
    IF ~err
    THEN Forget(q, key)
    ELSE IF NumRequeues(q, key) < MaxRequeues
    THEN AddRateLimited(q, key)
    ELSE Forget(q, key)

\* Faulty variant: any Failed pod is commented on, with the entry of some build.
LookupAny(m, name) ==
    IF m = {}
    THEN [ok |-> FALSE, ctx |-> [pod |-> name]]
    ELSE [ok |-> TRUE, ctx |-> CHOOSE c \in m : TRUE]

\* ctx, ok := c.podToBuild[pod.Name]
Lookup(m, name) ==
    IF \E c \in m : c.pod = name
    THEN [ok |-> TRUE, ctx |-> CHOOSE c \in m : c.pod = name]
    ELSE [ok |-> FALSE, ctx |-> [pod |-> name]]

\* What a read of podToBuild may find: the map has no lock, so a read that
\* runs while Add is writing finds any part of what is being written.
MapViews == {podToBuild \cup part : part \in SUBSET adding}

\* processBuildPod reads podToBuild for this key.
ReadsMap(key) == key \in DOMAIN indexer /\ indexer[key].phase = "Failed"

\* Faulty variant: a pod that is not Failed is never an error.
processBuildPodLenient(key, m) ==
    IF key \notin DOMAIN indexer \/ indexer[key].phase # "Failed"
       \/ ~Lookup(m, indexer[key].name).ok
    THEN {[err |-> "", lookup |-> FALSE, comment |-> FALSE]}
    ELSE {[err |-> "project", lookup |-> TRUE, comment |-> FALSE],
          [err |-> "client", lookup |-> TRUE, comment |-> FALSE],
          [err |-> "comment", lookup |-> TRUE, comment |-> TRUE],
          [err |-> "", lookup |-> TRUE, comment |-> TRUE]}

\* processBuildPod, reading m for podToBuild: what it returns ("" for nil)
\* and whether it got as far as the project lookup and the comment, for
\* each way the store and GitHub may answer.
processBuildPod(key, m) ==
    IF key \notin DOMAIN indexer
    THEN {[err |-> "", lookup |-> FALSE, comment |-> FALSE]}
    ELSE LET pod == indexer[key]
         IN IF pod.phase \in {"Running", "Succeeded", "Unknown", "Pending"}
            THEN {[err |-> "", lookup |-> FALSE, comment |-> FALSE]}
            ELSE IF pod.phase # "Failed"
            THEN {[err |-> "unexpected phase", lookup |-> FALSE, comment |-> FALSE]}
            ELSE IF ~Lookup(m, pod.name).ok
            THEN {[err |-> "", lookup |-> FALSE, comment |-> FALSE]}
            ELSE {[err |-> "project", lookup |-> TRUE, comment |-> FALSE],
                  [err |-> "client", lookup |-> TRUE, comment |-> FALSE],
                  [err |-> "comment", lookup |-> TRUE, comment |-> TRUE],
                  [err |-> "", lookup |-> TRUE, comment |-> TRUE]}

\* Run(threadiness, stopCh), up to WaitForCacheSync: the informer is started.
Run(threadiness) ==
    /\ run.pc = "off"
    /\ run' = [run EXCEPT !.pc = "WaitForCacheSync", !.threadiness = threadiness]
    /\ UNCHANGED <<env, req, pc, locals, resp, effects, wq, worker, comments, adding,
                   panicked>>

\* The informer has listed the pods: HasSynced turns true.
HasSynced ==
    /\ InformerRunning
    /\ ~run.synced
    /\ run' = [run EXCEPT !.synced = TRUE]
    /\ UNCHANGED <<env, req, pc, locals, resp, effects, wq, worker, comments, adding,
                   panicked>>

\* WaitForCacheSync returned true: Run starts the workers with wait.Until,
\* which runs nothing when stopCh is already closed.
StartWorkers ==
    /\ Alive
    /\ run.pc = "WaitForCacheSync"
    /\ run.synced
    /\ run' = [run EXCEPT !.pc = "running"]
    /\ worker' = [worker EXCEPT !.started = run.threadiness,
                                !.exited = IF run.stopped THEN run.threadiness ELSE 0]
    /\ UNCHANGED <<env, req, pc, locals, resp, effects, wq, comments, adding, panicked>>

\* close(stopCh)
Stop ==
    /\ Alive
    /\ run.pc \in {"WaitForCacheSync", "running"}
    /\ ~run.stopped
    /\ run' = [run EXCEPT !.stopped = TRUE]
    /\ UNCHANGED <<env, req, pc, locals, resp, effects, wq, worker, comments, adding,
                   panicked>>

\* Faulty variant: Run returns and leaves the queue open.
ReturnNoShutDown ==
    /\ Alive
    /\ run.pc \in {"WaitForCacheSync", "running"}
    /\ run.stopped
    /\ run' = [run EXCEPT !.pc = "returned"]
    /\ UNCHANGED <<env, req, pc, locals, resp, effects, wq, worker, comments, adding,
                   panicked>>

\* Run returns, from WaitForCacheSync or from <-stopCh, and the deferred
\* queue.ShutDown runs.
Return ==
    /\ Alive
    /\ run.pc \in {"WaitForCacheSync", "running"}
    /\ run.stopped
    /\ run' = [run EXCEPT !.pc = "returned"]
    /\ wq' = [wq EXCEPT !.shuttingDown = TRUE]
    /\ UNCHANGED <<env, req, pc, locals, resp, effects, worker, comments, adding,
                   panicked>>

\* The informer's AddFunc and UpdateFunc: the indexer holds the object the
\* API server sent, and its key is added to the queue.
Observed(name, phase) ==
    /\ InformerRunning
    /\ wq.events < MaxPodEvents
    /\ indexer' = [k \in DOMAIN indexer \cup {Key(name)} |->
                      IF k = Key(name) THEN [name |-> name, phase |-> phase]
                      ELSE indexer[k]]
    /\ wq' = [QueueAdd(wq, Key(name)) EXCEPT !.events = @ + 1]
    /\ UNCHANGED <<env, req, pc, locals, resp, builds, calls, podToBuild, worker,
                   comments, run, adding, panicked>>

AddFunc ==
    \E name \in PodNames, phase \in Phases :
        /\ Key(name) \notin DOMAIN indexer
        /\ Observed(name, phase)

UpdateFunc ==
    \E name \in PodNames, phase \in Phases :
        /\ Key(name) \in DOMAIN indexer
        /\ Observed(name, phase)

\* The informer sees a pod deleted: the indexer drops it. No DeleteFunc is
\* registered, so nothing is added to the queue.
Deleted ==
    \E key \in DOMAIN indexer :
        /\ InformerRunning
        /\ wq.events < MaxPodEvents
        /\ indexer' = [k \in DOMAIN indexer \ {key} |-> indexer[k]]
        /\ wq' = [wq EXCEPT !.events = @ + 1]
        /\ UNCHANGED <<env, req, pc, locals, resp, builds, calls, podToBuild, worker,
                       comments, run, adding, panicked>>

\* Add's entry for build id, as a request for issue 11 leaves it.
Entry(id) ==
    [pod |-> podName(id),
     underlying |-> [id |-> id, projectID |-> <<"brigade", "o", "r">>],
     issueNumber |-> 11, installationToken |-> InstallationToken]

\* BuildReporter.Add, called by githubHook.build on a handler goroutine,
\* up to the map assignment. Two assignments at once are a data race; the
\* runtime may stop the process on it (concurrent map writes).
Add ==
    \E id \in BuildIDs, fatal \in BOOLEAN :
        LET entry == Entry(id)
        IN /\ Alive
           /\ \A c \in podToBuild \cup adding : c.pod # entry.pod
           /\ fatal => adding # {}
           /\ adding' = adding \cup {entry}
           /\ run' = [run EXCEPT !.fatal = fatal]
           /\ UNCHANGED <<env, req, pc, locals, resp, effects, wq, worker, comments,
                          panicked>>

\* The rest of BuildReporter.Add: the entry is in the map, and a pod with
\* the name and no status is put in the indexer.
Added ==
    \E entry \in adding :
        /\ Alive
        /\ adding' = adding \ {entry}
        /\ podToBuild' = Registered(podToBuild, entry)
        /\ indexer' = Placed(indexer, entry.pod)
        /\ UNCHANGED <<env, req, pc, locals, resp, builds, calls, wq, worker, comments,
                       run, panicked>>

\* processNextBuildPodUpdate, up to c.queue.Get() returning a key.
Get ==
    /\ Alive
    /\ Idle > 0
    /\ wq.queue # <<>>
    /\ LET key == Head(wq.queue)
       IN /\ wq' = [wq EXCEPT !.queue = Tail(@), !.processing = @ \cup {key},
                                !.dirty = @ \ {key}]
          /\ worker' = [worker EXCEPT !.holding = @ (+) SetToBag({key})]
    /\ UNCHANGED <<env, req, pc, locals, resp, effects, comments, run, adding, panicked>>

\* c.queue.Get() returns quit: the queue is shut down and empty, runWorker
\* returns and wait.Until, its stopCh closed, ends the goroutine.
Quit ==
    /\ Alive
    /\ Idle > 0
    /\ wq.queue = <<>>
    /\ wq.shuttingDown
    /\ worker' = [worker EXCEPT !.exited = @ + 1]
    /\ UNCHANGED <<env, req, pc, locals, resp, effects, wq, comments, run, adding,
                   panicked>>

Processed(q, key) == IF key \in DOMAIN q THEN q[key] ELSE 0

\* The rest of processNextBuildPodUpdate: processBuildPod, completeOrRetry
\* and the deferred queue.Done. A read of podToBuild while Add is writing
\* it is a data race; the runtime may stop the process on it (concurrent
\* map read and map write).
processNextBuildPodUpdate ==
    \E key \in BagToSet(worker.holding), m \in MapViews, fatal \in BOOLEAN :
        LET racing == ReadsMap(key) /\ adding # {}
        IN /\ Alive
           /\ m # podToBuild => racing
           /\ fatal => racing
           /\ \E r \in processBuildPod(key, m) :
               LET ctx == Lookup(m, indexer[key].name).ctx
               IN /\ comments' = IF r.comment /\ ~fatal
                                 THEN comments \cup {[pod |-> indexer[key].name,
                                                      build |-> ctx.underlying.id,
                                                      issueNumber |-> ctx.issueNumber,
                                                      token |-> ctx.installationToken,
                                                      ok |-> r.err = ""]}
                                 ELSE comments
                  /\ wq' = IF fatal THEN wq
                           ELSE QueueDone(completeOrRetry(wq, r.err # "", key), key)
                  /\ worker' = IF fatal THEN worker
                               ELSE [worker EXCEPT
                         !.holding = @ (-) SetToBag({key}),
                         !.processed = [k \in DOMAIN worker.processed \cup {key} |->
                                          IF k = key THEN Processed(worker.processed, key) + 1
                                          ELSE worker.processed[k]],
                         !.last = [key |-> key,
                                   exists |-> key \in DOMAIN indexer,
                                   attempted |-> r.comment,
                                   phase |-> IF key \in DOMAIN indexer
                                             THEN indexer[key].phase ELSE "",
                                   registered |-> /\ key \in DOMAIN indexer
                                                  /\ Lookup(m, indexer[key].name).ok,
                                   err |-> r.err]]
           /\ run' = [run EXCEPT !.fatal = fatal]
    /\ UNCHANGED <<env, req, pc, locals, resp, effects, adding, panicked>>

\* The delay of a rate-limited add has passed: the key is added. The
\* delaying queue stops with ShutDown.
DelayElapsed ==
    \E key \in wq.waiting :
        /\ Alive
        /\ ~wq.shuttingDown
        /\ wq' = [QueueAdd(wq, key) EXCEPT !.waiting = @ \ {key}]
        /\ UNCHANGED <<env, req, pc, locals, resp, effects, worker, comments, run, adding,
                       panicked>>

\* The reporter at work: builds are registered, pods change, keys are
\* processed and retried.
NextReporter ==
    \/ Add
    \/ Added
    \/ AddFunc
    \/ UpdateFunc
    \/ Deleted
    \/ Get
    \/ processNextBuildPodUpdate
    \/ DelayElapsed

\* A gateway started with --report-build-failures.
Reporting ==
    /\ Constructed
    /\ cfg.ReportBuildFailures
    /\ cfg.CheckSuiteOnPR
    /\ cfg.DefaultSharedSecret = ""
    /\ cfg.EmittedEvents = {<<"*">>}
    /\ projects = NamedProjects

\* Its reporter once Run has started main's one worker: the cache is in
\* sync, stopCh is open, nothing is queued.
InitReporter ==
    /\ Reporting
    /\ run = [NotStarted EXCEPT !.pc = "running", !.threadiness = Threadiness,
                                !.synced = TRUE]
    /\ worker = [IdleWorker EXCEPT !.started = Threadiness]

SpecReporter == InitReporter /\ [][NextReporter]_vars

\* Run from its call to its return, with any number of workers.
RunAny == \E threadiness \in 1..MaxWorkers : Run(threadiness)

NextRun ==
    \/ RunAny
    \/ HasSynced
    \/ StartWorkers
    \/ Stop
    \/ Return
    \/ Quit
    \/ NextReporter

\* A gateway that reports build failures, as NewBuildReporter leaves the
\* reporter: Run is about to be called.
InitRun ==
    /\ Reporting
    /\ run = NotStarted
    /\ worker = IdleWorker

SpecRun == InitRun /\ [][NextRun]_vars

\* Goroutines that can run do run: Run gets past a closed stopCh, a worker
\* blocked in Get is woken by an item or by ShutDown, and processBuildPod,
\* with the calls it makes to the store and to GitHub, returns.
SpecRunFair ==
    /\ SpecRun
    /\ WF_vars(Return)
    /\ WF_vars(Get)
    /\ WF_vars(Quit)
    /\ WF_vars(processNextBuildPodUpdate)

(***************************************************************************)
(* What the properties speak of, stated from the delivery itself and not   *)
(* from the handlers' locals.                                              *)
(***************************************************************************)
Range(q) == {q[i] : i \in 1..Len(q)}

\* The status line that goes out: the first write fixes it; a handler that
\* writes nothing leaves gin's default.
WireStatus == IF resp = <<>> THEN 200 ELSE resp[1].status

AnsweredOnly(status, msg) == resp = <<[status |-> status, msg |-> msg]>>

Accepted == resp # <<>> /\ resp[1] = [status |-> 200, msg |-> "Complete"]

\* Builds the store took.
Persisted == SelectSeq(builds, LAMBDA b : ~b.err)

Types(q) == [i \in 1..Len(q) |-> q[i].type]

\* The repository the payload names ("" when nothing was parsed).
PayloadRepo == event.e.repo

\* The secret the delivery must be signed with: the project's, or the
\* gateway's default when the project has none.
SecretFor(p) == IF p.sharedSecret # "" THEN p.sharedSecret ELSE cfg.DefaultSharedSecret

SignatureVerified ==
    \E p \in projects :
        /\ p.name = PayloadRepo
        /\ SecretFor(p) # ""
        /\ req.signature = SHA1HMAC(SecretFor(p), req.body)

\* The delivery carries a parsed event of a kind the gateway builds for.
SupportedEvent == req.eventType \in SupportedKinds /\ event.type = req.eventType

\* The app a check event is destined for.
PayloadApp ==
    IF event.type = "check_run" /\ event.e.runAppID # 0
    THEN event.e.runAppID
    ELSE event.e.appID

PullRequestAdmitted ==
    /\ event.e.action \in {"opened", "synchronize", "reopened", "labeled",
                           "unlabeled", "closed"}
    /\ (~event.e.fork \/ event.e.assoc \in cfg.allowedAuthors)

PolicyAdmits ==
    CASE event.type = "push" -> ~event.e.deleted
      [] event.type = "pull_request" -> PullRequestAdmitted
      [] event.type \in CheckKinds -> PayloadApp = cfg.AppID
      [] OTHER -> TRUE

\* The emission filter of the configuration: a pattern matches a type when
\* it equals it, equals its part before ':', or is "*".
FilterMatches(t) ==
    \E p \in cfg.EmittedEvents : p = t \/ p = <<t[1]>> \/ p = <<"*">>

\* The types scheduleBuild is to build, in order.
ScheduledTypes ==
    IF event.e.action # "" /\ event.type \notin {"create", "deployment",
                                                 "deployment_status", "push", "status"}
    THEN <<<<req.eventType>>, <<req.eventType, event.e.action>>>>
    ELSE <<<<req.eventType>>>>

(***************************************************************************)
(* C1.  store.CreateBuild is never called before getValidatedProject has   *)
(* succeeded for the delivery: whenever a build was handed to the store,   *)
(* the payload's project exists, a non-empty secret was selected and       *)
(* X-Hub-Signature is the SHA1-HMAC of the raw body under it; and in the   *)
(* call log every CreateBuild comes after the store's GetProject.          *)
(***************************************************************************)
C1_NoBuildBeforeValidation ==
    /\ builds # <<>> => SignatureVerified /\ proj # NoProject
    /\ \A i \in 1..Len(calls) :
          calls[i].op = "CreateBuild" =>
              \E j \in 1..(i - 1) : calls[j] = Call("GetProject", "getValidatedProject", TRUE)

C1_Witness ==
    /\ pc = "done"
    /\ Len(builds) = 2
    /\ handler = "handleIssueComment"
    /\ SignatureVerified

C3_ExactlyScheduled ==
    pc = "done" /\ Accepted => Types(Persisted) = ScheduledTypes

(***************************************************************************)
(* C3 as amended.  In a delivery answered 200 Complete the builds handed   *)
(* to the store are, in order, those of eventType and (when the action is  *)
(* not empty) eventType:action that the emission filter matches, each      *)
(* once; each of them is created unless the store rejects it.              *)
(***************************************************************************)
C3_ScheduledInOrder ==
    pc = "done" /\ Accepted =>
        Types(builds) = SelectSeq(ScheduledTypes, FilterMatches)

C3_Witness ==
    /\ pc = "done"
    /\ Accepted
    /\ Len(ScheduledTypes) = 2
    /\ Types(Persisted) = <<ScheduledTypes[2]>>
    /\ ~FilterMatches(ScheduledTypes[1])

(***************************************************************************)
(* C4.  Once handleEvent has looked at a pull_request event: the event     *)
(* goes on to project validation if and only if its action is one of       *)
(* opened, synchronize, reopened, labeled, unlabeled, closed and its head  *)
(* repository is no fork or its author association is allowed; otherwise   *)
(* the answer is 200 "build skipped", no build is created and neither the  *)
(* store nor GitHub is called.                                             *)
(***************************************************************************)
C4_PullRequestPolicy ==
    event.type = "pull_request" /\ handler = "handleEvent" /\ pc # "handleEvent" =>
        IF PullRequestAdmitted
        THEN pc = "getValidatedProject" \/ (calls # <<>> /\ calls[1].op = "GetProject")
        ELSE /\ pc = "done"
             /\ AnsweredOnly(200, "build skipped")
             /\ builds = <<>>
             /\ calls = <<>>

C4_Witness ==
    /\ event.type = "pull_request"
    /\ pc = "done"
    /\ event.e.fork
    /\ event.e.assoc = "NONE"
    /\ event.e.action = "opened"
    /\ AnsweredOnly(200, "build skipped")

(***************************************************************************)
(* C5.  Once getValidatedProject has run for repository `repo`: an unknown *)
(* project gives 400; else the secret is the project's, or the default     *)
(* when the project's is empty, and an empty secret gives 500; else a      *)
(* missing or different X-Hub-Signature gives 403; each of the three ends  *)
(* the delivery with that single answer and no build; otherwise, and only  *)
(* then, the project is returned.                                          *)
(***************************************************************************)
C5_ValidationOrder ==
    calls # <<>> =>
        LET found == \E p \in projects : p.name = repo
            p == CHOOSE q \in projects : q.name = repo
            rejected(status, msg) ==
                /\ pc = "done"
                /\ AnsweredOnly(status, msg)
                /\ builds = <<>>
                /\ proj = NoProject
        IN IF ~found THEN rejected(400, "project not found")
           ELSE IF SecretFor(p) = ""
           THEN rejected(500, "No secret is configured for this repo.")
           ELSE IF req.signature # SHA1HMAC(SecretFor(p), req.body)
           THEN rejected(403, "malformed signature")
           ELSE proj = p

C5_Witness ==
    /\ calls = <<Call("GetProject", "getValidatedProject", TRUE)>>
    /\ pc = "done"
    /\ repo = <<"o", "r">>
    /\ cfg.DefaultSharedSecret = "dflt"
    /\ req.signature = SHA1HMAC("dflt", req.body)
    /\ AnsweredOnly(403, "malformed signature")

(***************************************************************************)
(* C6.  Once handleCheck has looked at a check_suite or check_run event    *)
(* whose app ID (the run's, or its suite's when the run's is 0) is not the *)
(* gateway's AppID, the delivery is over: no build, no call to the store,  *)
(* no token negotiation, and nothing written by the handler.               *)
(***************************************************************************)
C6_WrongAppShortCircuits ==
    /\ event.type \in CheckKinds
    /\ handler = "handleCheck"
    /\ pc # "handleCheck"
    /\ PayloadApp # cfg.AppID
    => /\ pc = "done"
       /\ builds = <<>>
       /\ calls = <<>>
       /\ resp = <<>>
       /\ ~panicked

C6_Witness ==
    /\ event.type = "check_run"
    /\ pc = "done"
    /\ event.e.runAppID = 2
    /\ event.e.appID = 1
    /\ resp = <<>>

\* A token negotiation failed at one of the places that answer it.
AuthFailure ==
    \E i \in 1..Len(calls) :
        /\ calls[i].op = "installationToken"
        /\ ~calls[i].ok
        /\ calls[i].by \in {"handleCheck", "prToCheckSuite", "updateIssueCommentEvent"}

(***************************************************************************)
(* C7 as claimed.  When a token negotiation (JWT signing, client           *)
(* construction, token exchange) has failed where the gateway answers it   *)
(* (handleCheck, the pull request's check-suite adapter, the issue_comment *)
(* enricher), the delivery ends answered 403 and with no build created.    *)
(***************************************************************************)
C7_AuthFailureRejects ==
    pc = "done" /\ AuthFailure => WireStatus = 403 /\ builds = <<>>

(***************************************************************************)
(* C8 as claimed, for the bodies that are empty or well-formed JSON (the   *)
(* claim says the same of any bytes).  A delivery whose X-GitHub-Event is  *)
(* not a recognised kind is answered 200 "Ignored" and creates no build.   *)
(***************************************************************************)
C8_UnknownEventIgnored ==
    /\ pc = "done"
    /\ req.eventType \notin SupportedKinds \cup {"ping"}
    /\ req.body.kind \in {"empty", "short", "object"}
    => AnsweredOnly(200, "Ignored") /\ builds = <<>>

(***************************************************************************)
(* C9 as claimed.  A check_suite or check_run delivery that reaches        *)
(* handleCheck with no check event parsed (an empty body) is answered 200  *)
(* "Ignored", creates no build, and the handler does not read the unset    *)
(* payload record.                                                         *)
(***************************************************************************)
C9_UnparsedCheckIgnored ==
    /\ pc = "done"
    /\ handler = "handleCheck"
    /\ event.type \notin CheckKinds
    => AnsweredOnly(200, "Ignored") /\ builds = <<>> /\ ~panicked

(***************************************************************************)
(* C10.  Once handleEvent has looked at a push event with deleted = true,  *)
(* the delivery is over, answered 200 "build skipped on branch deletion",  *)
(* with no build created.                                                  *)
(***************************************************************************)
C10_BranchDeletionSkipped ==
    event.type = "push" /\ event.e.deleted /\ pc # "handleEvent" =>
        /\ pc = "done"
        /\ AnsweredOnly(200, "build skipped on branch deletion")
        /\ builds = <<>>

C10_Witness ==
    /\ event.type = "push"
    /\ event.e.deleted
    /\ pc = "done"
    /\ SignatureVerified
    /\ WireStatus = 200

(***************************************************************************)
(* C11.  shouldEmit(event) is true if and only if some pattern of          *)
(* EmittedEvents equals the event, or equals the part of the event before  *)
(* its first ':', or is "*".  So with the pattern issue_comment:created    *)
(* alone of its kind the event issue_comment is not emitted, and with the  *)
(* pattern issue_comment the event issue_comment:created is.               *)
(***************************************************************************)
EventNames ==
    {<<e>> : e \in EventTypes}
      \cup {<<e, a>> : e \in EventTypes, a \in {"created", "opened", "requested"}}

C11_ShouldEmitPattern ==
    /\ \A t \in EventNames :
          shouldEmit(t) <=> \E p \in cfg.EmittedEvents :
                               p = t \/ p = SubSeq(t, 1, 1) \/ p = <<"*">>
    /\ cfg.EmittedEvents \cap {<<"issue_comment">>, <<"*">>} = {}
          => ~shouldEmit(<<"issue_comment">>)
    /\ <<"issue_comment">> \in cfg.EmittedEvents
          => shouldEmit(<<"issue_comment", "created">>)

\* doBuild has applied the filter to both types of an issue_comment:created
\* delivery, dropped the first and emitted the second.
C11_Witness ==
    /\ pc = "done"
    /\ req.eventType = "issue_comment"
    /\ <<"issue_comment", "created">> \in cfg.EmittedEvents
    /\ <<"issue_comment">> \notin cfg.EmittedEvents
    /\ Types(builds) = << <<"issue_comment", "created">> >>

\* handleEvent called prToCheckSuite.
AdapterInvoked == \E i \in 1..Len(calls) : calls[i].op = "prToCheckSuite"

\* A check-suite create, list or re-request call was made.
AdapterCalls ==
    \E i \in 1..Len(calls) :
        calls[i].op \in {"CreateCheckSuite", "ListCheckSuitesForRef", "ReRequestCheckSuite"}

\* The conditions the adapter is for, read from the delivery.
AdapterDue ==
    /\ req.eventType = "pull_request"
    /\ cfg.CheckSuiteOnPR
    /\ event.e.action \in {"opened", "synchronize", "reopened"}

(***************************************************************************)
(* C12 as claimed.  At the end of a delivery prToCheckSuite has been       *)
(* invoked if and only if the event is pull_request, CheckSuiteOnPR is     *)
(* true and the action is opened, synchronize or reopened; otherwise no    *)
(* check-suite create, list or re-request call was made.                   *)
(***************************************************************************)
C12_AdapterIff ==
    pc = "done" =>
        /\ AdapterInvoked <=> AdapterDue
        /\ ~AdapterDue => ~AdapterCalls

(***************************************************************************)
(* C12 as amended.  prToCheckSuite is invoked, and a check-suite create,   *)
(* list or re-request call made, only if the event is pull_request,        *)
(* CheckSuiteOnPR is true and the action is opened, synchronize or         *)
(* reopened; and for a delivery that passed handleEvent's policy and       *)
(* getValidatedProject the adapter is invoked exactly under these          *)
(* conditions.                                                             *)
(***************************************************************************)
C12_AdapterOnlyIf ==
    /\ AdapterInvoked \/ AdapterCalls \/ pc = "prToCheckSuite" => AdapterDue
    /\ handler = "handleEvent" /\ proj # NoProject /\ pc # "prToCheckSuite"
          => (AdapterInvoked <=> AdapterDue)

C12_Witness ==
    /\ pc = "done"
    /\ Accepted
    /\ AdapterInvoked
    /\ AdapterCalls
    /\ event.e.action = "synchronize"

\* The calls of the adapter's run, in order.
AdapterLog == SelectSeq(calls, LAMBDA c : c.by = "prToCheckSuite")

\* The adapter has returned to handleEvent (or the delivery ended in it).
AdapterOver ==
    AdapterInvoked /\ pc \notin {"CreateCheckSuite", "ListCheckSuitesForRef",
                                  "ReRequestCheckSuite", "ReRequestListed"}

(***************************************************************************)
(* C13.  In a run of the check-suite adapter the calls are, in order: the  *)
(* token negotiation, CreateCheckSuite for the head SHA, and then either   *)
(* (creation succeeded) one re-request of the suite just created, or       *)
(* (creation failed with 422) ListCheckSuitesForRef for the head SHA and   *)
(* our AppID followed, when it returned a suite, by one re-request of the  *)
(* first; no re-request comes before CreateCheckSuite and there is at most *)
(* one.                                                                    *)
(***************************************************************************)
C13_AdapterCallOrder ==
    LET A == AdapterLog
        n == Len(A)
        minted == Call("installationToken", "prToCheckSuite", TRUE)
        isOp(i, op) == i \in 1..n /\ A[i].op = op
    IN /\ \A i \in 1..n :
             /\ A[i].op = "installationToken" => i = 1
             /\ A[i].op = "CreateCheckSuite" =>
                    i = 2 /\ A[1] = minted /\ A[i].arg.sha = event.e.sha
             /\ A[i].op = "ListCheckSuitesForRef" =>
                    /\ i = 3 /\ isOp(2, "CreateCheckSuite") /\ A[2].arg.status = 422
                    /\ A[i].arg.sha = event.e.sha /\ A[i].arg.appID = cfg.AppID
             /\ A[i].op = "ReRequestCheckSuite" =>
                    \/ /\ i = 3 /\ isOp(2, "CreateCheckSuite") /\ A[2].ok
                       /\ A[i].arg.suite = CreatedSuiteID
                    \/ /\ i = 4 /\ isOp(3, "ListCheckSuitesForRef") /\ A[3].ok
                       /\ A[3].arg.suites # <<>>
                       /\ A[i].arg.suite = A[3].arg.suites[1]
       /\ Cardinality({i \in 1..n : A[i].op = "ReRequestCheckSuite"}) <= 1
       /\ AdapterOver /\ ~panicked =>
             /\ isOp(2, "CreateCheckSuite") /\ A[2].ok => isOp(3, "ReRequestCheckSuite")
             /\ isOp(2, "CreateCheckSuite") /\ A[2].arg.status = 422
                   => isOp(3, "ListCheckSuitesForRef")
             /\ isOp(3, "ListCheckSuitesForRef") /\ A[3].ok /\ A[3].arg.suites # <<>>
                   => isOp(4, "ReRequestCheckSuite")

\* A run that found the suite existing, listed two and re-requested the first.
C13_Witness ==
    /\ AdapterOver
    /\ Len(AdapterLog) = 4
    /\ AdapterLog[3].arg.suites = <<41, 42>>
    /\ AdapterLog[4].arg.suite = 41

\* A check-suite call of the adapter failed, other than a creation answered 422.
AdapterCallFailed ==
    \E i \in 1..Len(AdapterLog) :
        LET c == AdapterLog[i]
        IN \/ c.op = "CreateCheckSuite" /\ ~c.ok /\ c.arg.status # 422
           \/ c.op \in {"ListCheckSuitesForRef", "ReRequestCheckSuite"} /\ ~c.ok

(***************************************************************************)
(* C14 as claimed.  When CreateCheckSuite failed with a status other than  *)
(* 422, or the list or re-request call failed, the pull_request delivery   *)
(* still ends answered 200 Complete with its builds handed to the store.   *)
(***************************************************************************)
C14_AdapterFailureContained ==
    pc = "done" /\ AdapterCallFailed =>
        /\ AnsweredOnly(200, "Complete")
        /\ Types(builds) = SelectSeq(ScheduledTypes, FilterMatches)

\* The adapter ran to its end: the suite was created, or found existing and
\* listed, and its re-request succeeded.
AdapterSucceeded ==
    /\ AdapterOver
    /\ Len(AdapterLog) >= 3
    /\ AdapterLog[Len(AdapterLog)].op = "ReRequestCheckSuite"
    /\ AdapterLog[Len(AdapterLog)].ok

(***************************************************************************)
(* C15 as claimed.  When the check-suite adapter has completed             *)
(* successfully for a pull_request, the handler goes on: the delivery ends *)
(* answered 200 Complete with the pull_request and pull_request:action     *)
(* builds (those the emission filter lets through) handed to the store.    *)
(***************************************************************************)
C15_AdapterFallsThrough ==
    pc = "done" /\ AdapterSucceeded =>
        /\ AnsweredOnly(200, "Complete")
        /\ Types(builds) = SelectSeq(ScheduledTypes, FilterMatches)

\* The delivery is an issue comment the enricher is for: created or edited,
\* on a pull request, by an allowed author.
EnrichDue ==
    /\ req.eventType = "issue_comment"
    /\ event.type = "issue_comment"
    /\ event.e.action \in {"created", "edited"}
    /\ event.e.isPR
    /\ event.e.assoc \in cfg.allowedAuthors

(***************************************************************************)
(* C16 as claimed.  For an issue_comment created or edited on a pull       *)
(* request by an allowed author, every build of the delivery has the       *)
(* revision {commit = the pull request's head SHA, ref =                   *)
(* refs/pull/<n>/head} and a payload whose top-level token is not empty    *)
(* and whose body is the original GitHub payload.                          *)
(***************************************************************************)
C16_EnrichedBuilds ==
    EnrichDue =>
        \A i \in 1..Len(builds) :
            /\ builds[i].revision = [commit |-> PullRequestHeadSHA,
                                     ref |-> PullRef(event.e.number)]
            /\ builds[i].payload.form = "wrapped"
            /\ builds[i].payload.token # ""
            /\ builds[i].payload.body = req.body

(***************************************************************************)
(* C17 as claimed, for the deliveries that passed getValidatedProject.  An *)
(* issue_comment that is not enriched (author not allowed, or no pull      *)
(* request, or an action other than created / edited) fetches no pull      *)
(* request and is still forwarded: the delivery ends answered 200 Complete *)
(* with the issue_comment and issue_comment:action builds (those the       *)
(* emission filter lets through) handed to the store, each with ref        *)
(* refs/heads/master and an empty commit.                                  *)
(***************************************************************************)
C17_NotEnrichedForwarded ==
    /\ pc = "done"
    /\ req.eventType = "issue_comment"
    /\ event.type = "issue_comment"
    /\ ~EnrichDue
    /\ proj # NoProject
    => /\ \A i \in 1..Len(calls) : calls[i].op # "PullRequests.Get"
       /\ AnsweredOnly(200, "Complete")
       /\ Types(builds) = SelectSeq(ScheduledTypes, FilterMatches)
       /\ \A i \in 1..Len(builds) :
             builds[i].revision = [commit |-> "", ref |-> "refs/heads/master"]

(***************************************************************************)
(* C18.  Every build created from a check_suite or check_run delivery      *)
(* carries a payload holding the installation token negotiated in that     *)
(* delivery (not empty), its expiry, and under body the original GitHub    *)
(* payload; none is created with an empty or token-less payload.           *)
(***************************************************************************)
C18_CheckBuildPayload ==
    req.eventType \in CheckKinds =>
        \A i \in 1..Len(builds) :
            LET p == builds[i].payload
            IN /\ p.form = "wrapped"
               /\ p.token # ""
               /\ p.token = InstallationToken
               /\ p.tokenExpires = InstallationTokenExpiry
               /\ p.body = req.body
               /\ p.type = req.eventType
               /\ \E j \in 1..Len(calls) :
                     calls[j] = Call("installationToken", "handleCheck", TRUE)

C18_Witness ==
    /\ pc = "done"
    /\ req.eventType = "check_run"
    /\ Accepted
    /\ Len(Persisted) = 2
    /\ builds[2].payload.token = InstallationToken

\* The step is one processing of the key the worker holds.
ProcessingStep == worker'.processed # worker.processed

\* C19: the reporter posts a comment only for a pod whose name is a key of
\* podToBuild, that is, for a build registered through Add; processing a
\* Failed pod that was never registered makes no GitHub call and no retry.
C19_OnlyRegisteredCommented ==
    [][/\ \A c \in comments' : \E e \in podToBuild' \cup adding' : e.pod = c.pod
       /\ (/\ ProcessingStep
           /\ worker'.last.phase = "Failed"
           /\ ~worker'.last.registered)
          => /\ comments' = comments
             /\ worker'.last.err = ""
             /\ wq'.waiting = wq.waiting
             /\ NumRequeues(wq', worker'.last.key) = 0]_vars

\* A registered Failed pod has been commented on, and the last pod processed
\* was a Failed pod of no registered build.
C19_Witness ==
    /\ \E c \in comments : c.ok
    /\ podToBuild # {}
    /\ worker.last.key = Key(<<"other">>)
    /\ worker.last.phase = "Failed"
    /\ ~worker.last.registered

\* C20: a failed processing re-enqueues the key with AddRateLimited while
\* its requeue count is below 5; at count 5 it calls Forget and does not
\* re-enqueue (the key goes back to the queue only if an earlier add marked
\* it while it was being processed; a queue that is shutting down takes no
\* delayed add). The count never exceeds 5, and the processings of a key
\* are bounded by 1 + 5 for each pod event observed.
C20_BoundedRetries ==
    [][/\ \A k \in DOMAIN wq'.requeues : wq'.requeues[k] <= 5
       /\ \A k \in DOMAIN worker'.processed :
              worker'.processed[k] <= (1 + 5) * wq'.events
       /\ (ProcessingStep /\ worker'.last.err # "")
          => LET key == worker'.last.key
             IN IF NumRequeues(wq, key) < 5
                THEN /\ wq.shuttingDown \/ key \in wq'.waiting
                     /\ NumRequeues(wq', key) = NumRequeues(wq, key) + 1
                ELSE /\ NumRequeues(wq', key) = 0
                     /\ wq'.waiting = wq.waiting
                     /\ wq'.dirty = wq.dirty
                     /\ wq'.queue = IF key \in wq.dirty
                                    THEN Append(wq.queue, key)
                                    ELSE wq.queue]_vars

\* After one pod event a key has been processed 1 + 5 times, each time with
\* an error, and has been dropped: nothing is counted, waiting or queued.
C20_Witness ==
    /\ wq.events = 1
    /\ worker.last.err # ""
    /\ worker.last.key \in DOMAIN worker.processed
    /\ worker.processed[worker.last.key] = 1 + 5
    /\ wq.requeues = <<>>
    /\ wq.waiting = {}
    /\ wq.queue = <<>>
    /\ worker.holding = EmptyBag

StoreAccepted(b) == ~b.err
IsAddCall(c) == c.op = "Add"
Created == SelectSeq(builds, StoreAccepted)
AddCalls == SelectSeq(calls, IsAddCall)

\* build's condition for reporting, on the options of this delivery.
ReportDue == opts.tok # "" /\ opts.issueID # 0 /\ cfg.ReportBuildFailures

(***************************************************************************)
(* C22 as claimed.  BuildReporter.Add is called exactly for the builds the *)
(* store created while the token is non-empty, the issue ID non-zero and   *)
(* ReportBuildFailures true: never for a type the emission filter dropped, *)
(* never for a build the store rejected, never with reporting off; each    *)
(* call records the build under pod name brigade-worker-<buildID>.         *)
(***************************************************************************)
C22_AddExactlyForCreated ==
    /\ Len(AddCalls) = IF ReportDue THEN Len(Created) ELSE 0
    /\ {e.pod : e \in podToBuild} =
          IF ReportDue THEN {podName(b.id) : b \in Range(Created)} ELSE {}
    /\ \A e \in podToBuild :
          e.issueNumber = opts.issueID /\ e.installationToken = opts.tok

(***************************************************************************)
(* C23 as claimed.  The podToBuild entry of a build is removed when its    *)
(* pod is seen Succeeded and after its failure comment was delivered, so   *)
(* the map holds entries only for builds whose outcome is still pending.   *)
(***************************************************************************)
C23_EntriesRemoved ==
    /\ \A c \in comments : c.ok => \A e \in podToBuild : e.pod # c.pod
    /\ (worker.last.exists /\ worker.last.phase = "Succeeded")
       => \A e \in podToBuild : Key(e.pod) # worker.last.key

(***************************************************************************)
(* C24 as claimed.  Access to podToBuild is safe under concurrency: while  *)
(* a handler goroutine is inside Add's insertion no worker is inside a     *)
(* processBuildPod that reads the map, and no second insertion is under    *)
(* way.                                                                    *)
(***************************************************************************)
C24_MapAccessExclusive ==
    /\ adding # {} => \A key \in BagToSet(worker.holding) : ~ReadsMap(key)
    /\ Cardinality(adding) <= 1

Drained == wq.queue = <<>> /\ wq.processing = {}

\* Run has returned, the queue is shut down and every worker has left its loop.
Stopped ==
    /\ run.pc = "returned"
    /\ wq.shuttingDown
    /\ worker.exited = worker.started
    /\ worker.holding = EmptyBag

\* C26: once stopCh is closed the informer delivers nothing more, Run
\* returns and shuts the queue down, and every worker eventually leaves its
\* loop; no key is processed once the shut-down queue is drained; and while
\* the cache has not synced no worker is started.
C26_Shutdown ==
    /\ (run.stopped ~> (Stopped \/ run.fatal))
    /\ [][/\ run.stopped => wq'.events = wq.events
          /\ (wq.shuttingDown /\ Drained)
             => (Drained' /\ worker'.processed = worker.processed)
          /\ ~run'.synced => worker'.started = 0]_vars

\* Run was stopped with two workers started: both have left, the queue is
\* shut down and drained, and a retry that was waiting for its delay has
\* been abandoned.
C26_Witness ==
    /\ Stopped
    /\ Drained
    /\ worker.started = 2
    /\ wq.waiting # {}
    /\ worker.processed # <<>>

\* The calls that go out to GitHub while a request is handled.
GitHubOps ==
    {"installationToken", "PullRequests.Get", "CreateCheckSuite",
     "ListCheckSuitesForRef", "ReRequestCheckSuite"}

(***************************************************************************)
(* C27 as claimed.  Every GitHub call of a request carries the request's   *)
(* context: once the request is cancelled, no further GitHub call of that  *)
(* request is started.                                                     *)
(***************************************************************************)
C27_NoCallAfterCancel ==
    [][cancelled =>
        \A i \in 1..Len(calls') : i > Len(calls) => calls'[i].op \notin GitHubOps]_vars

(***************************************************************************)
(* C28 as claimed.  After a request has completed, an installation token   *)
(* minted during it is held nowhere in the gateway's state: no entry of    *)
(* the reporter's map carries a token.                                     *)
(***************************************************************************)
C28_NoTokenKept ==
    pc = "done" => \A c \in podToBuild : c.installationToken = ""

PerKindRevision(kind, e) ==
    CASE kind = "push" -> [commit |-> e.sha, ref |-> e.ref]
      [] kind \in {"pull_request", "pull_request_review",
                   "pull_request_review_comment"} ->
           [commit |-> e.sha, ref |-> "refs/pull/" \o ToString(e.number) \o "/head"]
      [] kind = "commit_comment" -> [commit |-> e.sha, ref |-> ""]
      [] kind = "create" -> [commit |-> "", ref |-> e.ref]
      [] kind = "release" -> [commit |-> "", ref |-> e.ref]
      [] kind = "status" -> [commit |-> e.sha, ref |-> ""]
      [] kind \in {"deployment", "deployment_status"} -> [commit |-> e.sha, ref |-> e.ref]
      [] kind \in {"check_suite", "check_run"} -> [commit |-> e.sha, ref |-> e.ref]

(***************************************************************************)
(* C30.  The revision of every build is the one the table derives for the  *)
(* kind of the delivery from the fields of its event (for a check run the  *)
(* head SHA and head branch of its suite, not the run's own head SHA), and *)
(* the builds of one delivery carry the same revision.                     *)
(***************************************************************************)
C30_RevisionPerKind ==
    /\ \A i \in 1..Len(builds) :
          /\ Head(builds[i].type) = req.eventType
          /\ req.eventType \in HandleEventKinds \cup CheckKinds =>
                builds[i].revision = PerKindRevision(req.eventType, req.body)
    /\ \A i, j \in 1..Len(builds) : builds[i].revision = builds[j].revision

\* A check run whose own head SHA differs from its suite's was built twice,
\* at the suite's head SHA and head branch.
C30_Witness ==
    /\ pc = "done"
    /\ req.eventType = "check_run"
    /\ req.body.runSha # req.body.sha
    /\ Len(builds) = 2
    /\ builds[1].type = <<"check_run">>
    /\ builds[2].type = <<"check_run", "rerequested">>
    /\ builds[2].revision = [commit |-> req.body.sha, ref |-> req.body.ref]

(***************************************************************************)
(* C31 as claimed.  A ping is answered 200 OK, whatever its body is, with  *)
(* no call to the store or to GitHub and no build.                         *)
(***************************************************************************)
C31_PingAlwaysOK ==
    (pc = "done" /\ req.eventType = "ping") =>
        /\ resp = <<[status |-> 200, msg |-> "OK"]>>
        /\ calls = <<>>
        /\ builds = <<>>

(***************************************************************************)
(* C32 as claimed.  The issue number under which a build is registered     *)
(* with the reporter, which is the number its failure comment is posted    *)
(* on, is the number of the pull request or issue of the delivery.         *)
(***************************************************************************)
C32_CommentOnOriginatingIssue ==
    req.eventType \in {"pull_request", "issue_comment"} =>
        \A c \in podToBuild : c.issueNumber = req.body.number

(***************************************************************************)
(* C33 as claimed.  Every invocation of Handle writes exactly one          *)
(* response: never none, never two.                                        *)
(***************************************************************************)
C33_ExactlyOneResponse ==
    pc = "done" => Len(resp) = 1

(***************************************************************************)
(* C34.  No GitHub call (token mint, pull-request fetch, check-suite       *)
(* create, list or re-request) is made for a delivery before its signature *)
(* has been verified: whenever the call log holds a GitHub call, the       *)
(* delivery's X-Hub-Signature is the SHA1-HMAC of its body under the       *)
(* project's secret and getValidatedProject's lookup precedes the call. A  *)
(* delivery with an invalid signature causes no GitHub call.               *)
(***************************************************************************)
C34_NoGitHubCallBeforeVerification ==
    \A i \in 1..Len(calls) :
        calls[i].op \in GitHubOps =>
            /\ SignatureVerified
            /\ \E j \in 1..(i - 1) :
                  calls[j] = Call("GetProject", "getValidatedProject", TRUE)

\* A verified issue comment on a pull request went as far as fetching the
\* pull request from GitHub with a freshly minted token.
C34_Witness ==
    /\ pc = "done"
    /\ SignatureVerified
    /\ \E i, j \in 1..Len(calls) :
          /\ i < j
          /\ calls[i].op = "installationToken"
          /\ calls[j].op = "PullRequests.Get"

(***************************************************************************)
(* C35 as claimed.  200 Complete is answered only if every build handed to *)
(* the store was taken, and no build is attempted after one the store      *)
(* rejected.                                                               *)
(***************************************************************************)
C35_CompleteOnlyIfStored ==
    /\ (pc = "done" /\ Accepted) => \A i \in 1..Len(builds) : ~builds[i].err
    /\ \A i \in 1..Len(builds) : builds[i].err => i = Len(builds)

(***************************************************************************)
(* C36 as claimed.  At most one failure comment is ever posted for a       *)
(* registered build: once a comment for its pod went out, no later         *)
(* processing of the pod's key posts another.                              *)
(***************************************************************************)
C36_AtMostOneComment ==
    [][\A c \in comments :
          c.ok => ~(/\ ProcessingStep
                    /\ worker'.last.key = Key(c.pod)
                    /\ worker'.last.attempted
                    /\ worker'.last.err = "")]_vars

\* The running reporter with goroutines that make progress: an insertion by
\* Add completes, a worker blocked in Get takes a queued key, processBuildPod
\* returns, and a retry's delay elapses.
SpecReporterFair ==
    /\ SpecReporter
    /\ WF_vars(Added)
    /\ WF_vars(Get)
    /\ WF_vars(processNextBuildPodUpdate)
    /\ WF_vars(DelayElapsed)

\* The build of entry c is registered and its pod was seen Failed when its
\* key was last processed.
FailedAndRegistered(c) ==
    /\ c \in podToBuild
    /\ worker.last.key = Key(c.pod)
    /\ worker.last.phase = "Failed"

\* A failure comment for entry c's pod went out.
Commented(c) == \E m \in comments : m.pod = c.pod /\ m.ok

(***************************************************************************)
(* C37 as claimed.  For every build registered through Add whose pod the   *)
(* informer observed Failed, a failure comment is eventually posted,       *)
(* unless the project lookup or a GitHub call failed or the process was    *)
(* stopped; in whatever order Add and the pod's events came.               *)
(***************************************************************************)
C37_FailedEventuallyCommented ==
    \A id \in BuildIDs :
        FailedAndRegistered(Entry(id)) ~>
            (Commented(Entry(id)) \/ worker.last.err # "" \/ ~Alive)

(***************************************************************************)
(* C38 as claimed.  Add never replaces an indexer entry that the informer  *)
(* has populated: the step of Add that writes the indexer leaves every     *)
(* pod already stored there as it was.                                     *)
(***************************************************************************)
C38_AddKeepsObservedPod ==
    [][(adding' # adding /\ podToBuild' # podToBuild) =>
          \A k \in DOMAIN indexer : indexer'[k] = indexer[k]]_vars

(***************************************************************************)
(* C39 as claimed.  A check_suite or check_run delivery that passed        *)
(* validation and got its installation token is answered 200 Complete,     *)
(* whether or not it lists a pull request; with none listed nothing is     *)
(* registered with the reporter.                                           *)
(***************************************************************************)
C39_CheckWithoutPullRequests ==
    (/\ pc = "done"
     /\ req.eventType \in CheckKinds
     /\ \E i \in 1..Len(calls) : calls[i] = Call("installationToken", "handleCheck", TRUE))
    => /\ ~panicked
       /\ Accepted
       /\ event.e.prs = <<>> => podToBuild = {}

(***************************************************************************)
(* C40 as claimed.  Every build carries a non-empty payload: the bytes of  *)
(* the request body, or the wrapper around them.                           *)
(***************************************************************************)
C40_PayloadIsBodyOrWrapper ==
    \A i \in 1..Len(builds) :
        /\ PayloadLen(builds[i].payload) > 0
        /\ builds[i].payload.body = req.body

====
